---- MODULE Spec2Model ----
(***************************************************************************)
(* A model of the raytracer: the intersection geometry (Interval, Aabb3d,  *)
(* Sphere, Plane, Triangle, HittableGroup, Bvh), the recursive estimator   *)
(* Camera::raycast, and the fork-join renderer of main.rs.                 *)
(*                                                                         *)
(* Numbers.  An f64 is modelled as an exact rational <<n, d>> with d >= 0  *)
(* in lowest terms; <<1, 0>> is +inf, <<-1, 0>> is -inf and <<0, 0>> is    *)
(* NaN, so that division by zero and comparisons with NaN behave as IEEE   *)
(* 754 says.  Rounding is not modelled: the inputs are drawn from sets on  *)
(* which every operation (the square roots too) is exact.                  *)
(*                                                                         *)
(* Lengths.  One unit of length is 1e-6, so that the two small constants   *)
(* of the geometry are integers: the ray interval starts at 0.000001 = 1   *)
(* unit and Aabb3d::pad's DELTA is 0.00001 = 10 units.                     *)
(***************************************************************************)
EXTENDS Integers, Sequences, FiniteSets, TLC

VARIABLES
    \* ---- geometry: one Bvh::new and one query ----
    gpc,            \* "new" -> "built" -> "queried" or "boxed"; "new" -> "tested"
    objects,        \* the Vec<Arc<dyn Hittable>> handed to Bvh::new
    bvh,            \* the Bvh built from objects
    ray,            \* the queried ray
    interval,       \* the queried interval
    bvhHit,         \* Bvh::hit(interval, ray)
    groupHit,       \* HittableGroup::hit(interval, ray) over the same members
    primHits,       \* each member's own hit(interval, ray)
    boxHit,         \* bvh.bounds.hit(ray, interval)
    probe,          \* the x handed to Interval::contains and Interval::surrounds
    probeIn,        \* interval.contains(probe)
    probeAround     \* interval.surrounds(probe)

gvars ==
    <<gpc, objects, bvh, ray, interval, bvhHit, groupHit, primHits, boxHit, probe,
      probeIn, probeAround>>

VARIABLES
    \* ---- the renderer: main and its workers ----
    imageHeight,    \* IMAGE_HEIGHT of this run
    threads,        \* THREADS of this run
    mpc,            \* main: "spawn" -> "join" -> "assemble" -> "done"
    start,          \* main's start
    wpc,            \* wpc[i]: worker i is "unborn", at "row", "lock", "load", "store",
                    \*         "unlock" or "done"
    row_start,      \* row_start[i], row_end[i]: the arguments of worker i's render
    row_end,
    row,            \* row[i]: the row worker i is at
    rng,            \* rng[i]: the state of worker i's thread-local generator
    seed,           \* seed[i]: the state that generator started from
    fragment,       \* fragment[i]: the pixels worker i has pushed
    colors,         \* colors[i]: the averaged colour behind each pushed pixel
    counter,        \* counter[i]: the value worker i loaded for *counter += 1
    mutex,          \* the worker holding the lock of completed, or 0
    completed,      \* the shared completed-row counter
    progress,       \* the values passed to update_progress, in order
    finished,       \* the workers in the order in which they returned
    fragments,      \* main's Vec<ImageFragment>, filled by the joins
    buffer,         \* buffer[<<x, y>>]: the framebuffer
    writes,         \* writes[<<x, y>>]: how often put_pixel wrote (x, y)
    fi,             \* the fragment and the pixel the reassembly loop is at
    pi,
    bx,             \* main's x and y
    by

VARIABLES
    \* ---- one run of Camera::raycast ----
    cpc,            \* "call": a raycast call starts; "return": one returns; "done"
    world,          \* the members of the HittableGroup
    background,     \* camera.background
    primary,        \* the ray of the outermost call
    depth0,         \* the depth of the outermost call
    cray,           \* the ray of the call that starts
    cdepth,         \* the depth of the call that starts
    cstack,         \* the suspended calls: [emitted, attenuation] of each
    cvalue,         \* the value being returned
    queries,        \* the number of world.hit queries issued
    calls           \* the number of recursive calls made

VARIABLES
    \* ---- one run of Bvh::new, call by call ----
    npc,            \* "call": a call of Bvh::new starts; "done"; "overflow"
    faces,          \* the list load_mesh hands to Bvh::new
    nstack,         \* the calls not yet started, the next one last: the list
                    \* each receives, its depth and the length of its caller's list
    nleaves         \* the primitives made children of a node so far

nvars == <<npc, faces, nstack, nleaves>>

cvars ==
    <<cpc, world, background, primary, depth0, cray, cdepth, cstack, cvalue, queries,
      calls>>

rvars ==
    <<imageHeight, threads, mpc, start, wpc, row_start, row_end, row, rng, seed,
      fragment, colors, counter, mutex, completed, progress, finished, fragments,
      buffer, writes, fi, pi, bx, by>>

-----------------------------------------------------------------------------
(* f64 as exact rationals with infinities and NaN *)

\* F(x) and F(x, y) with the arguments evaluated once, before F is applied
Strict1(F(_), x) == CHOOSE r \in { F(a) : a \in {x} } : TRUE
Strict2(F(_, _), x, y) == CHOOSE r \in { F(a, b) : a \in {x}, b \in {y} } : TRUE

Abs(n) == IF n < 0 THEN -n ELSE n

Sign(n) == IF n > 0 THEN 1 ELSE IF n < 0 THEN -1 ELSE 0

RECURSIVE Gcd(_, _)
Gcd(a, b) == IF b = 0 THEN a ELSE Gcd(b, a % b)

\* the f64 n/d (d may be negative or zero)
Frac(n, d) ==
    IF d = 0 THEN <<Sign(n), 0>>
    ELSE IF d = 1 THEN <<n, 1>>
    ELSE LET g == Gcd(Abs(n), Abs(d))
             s == IF d < 0 THEN -1 ELSE 1
         IN  <<(s * n) \div g, (s * d) \div g>>

R(n) == <<n, 1>>

PosInf == <<1, 0>>
NegInf == <<-1, 0>>
NaN == <<0, 0>>

IsNaN(x) == x[1] = 0 /\ x[2] = 0
IsFinite(x) == x[2] > 0

\* x + y
FAdd(x, y) ==
    Strict2(LAMBDA a, b :
                IF a[2] = 0 /\ b[2] = 0
                THEN (IF a[1] = b[1] THEN a ELSE NaN)
                ELSE Frac(a[1] * b[2] + b[1] * a[2], a[2] * b[2]),
            x, y)

\* -x
FNeg(x) == Strict1(LAMBDA a : <<-a[1], a[2]>>, x)

\* x - y
FSub(x, y) == FAdd(x, FNeg(y))

\* x * y
FMul(x, y) == Strict2(LAMBDA a, b : Frac(a[1] * b[1], a[2] * b[2]), x, y)

\* 1 / y (1/0 = +inf, 1/inf = 0)
FRecip(y) ==
    Strict1(LAMBDA b :
                IF b[2] = 0 THEN (IF b[1] = 0 THEN NaN ELSE R(0))
                ELSE IF b[1] = 0 THEN PosInf
                ELSE IF b[1] < 0 THEN <<-b[2], -b[1]>>
                ELSE <<b[2], b[1]>>,
            y)

\* x / y (x/0 = +-inf, 0/0 = NaN)
FDiv(x, y) == FMul(x, FRecip(y))

\* x < y: false as soon as one side is NaN
FLt(x, y) ==
    Strict2(LAMBDA a, b :
                IF a[2] = 0 /\ b[2] = 0
                THEN a[1] # 0 /\ b[1] # 0 /\ a[1] < b[1]
                ELSE a[1] * b[2] < b[1] * a[2],
            x, y)

\* x <= y
FLe(x, y) ==
    Strict2(LAMBDA a, b : ~IsNaN(a) /\ ~IsNaN(b) /\ (a = b \/ FLt(a, b)), x, y)

\* f64::min and f64::max (a NaN argument yields the other one)
FMin(x, y) ==
    Strict2(LAMBDA a, b :
                IF IsNaN(a) THEN b ELSE IF IsNaN(b) THEN a ELSE IF FLt(b, a) THEN b ELSE a,
            x, y)
FMax(x, y) ==
    Strict2(LAMBDA a, b :
                IF IsNaN(a) THEN b ELSE IF IsNaN(b) THEN a ELSE IF FLt(a, b) THEN b ELSE a,
            x, y)

\* the largest k in lo..hi with k * k <= n, by bisection
RECURSIVE IsqrtIn(_, _, _)
IsqrtIn(n, lo, hi) ==
    IF lo >= hi THEN lo
    ELSE LET mid == (lo + hi + 1) \div 2
         IN  IF mid * mid <= n THEN IsqrtIn(n, mid, hi) ELSE IsqrtIn(n, lo, mid - 1)

\* the integer square root of n >= 0
Isqrt(n) == IsqrtIn(n, 0, IF n < 46340 THEN n ELSE 46340)

IsSquare(n) == Isqrt(n) * Isqrt(n) = n

\* whether sqrt is exact on x
ExactSqrt(x) == IsFinite(x) /\ x[1] >= 0 /\ IsSquare(x[1]) /\ IsSquare(x[2])

\* f64::sqrt, on the values where it is exact (NaN for a negative number)
FSqrt(x) ==
    Strict1(LAMBDA a :
                IF IsNaN(a) \/ a[1] < 0 THEN NaN
                ELSE IF a[2] = 0 THEN a
                ELSE <<Isqrt(a[1]), Isqrt(a[2])>>,
            x)

\* std::f64::MAX: a finite number above every other finite number of the model
F64_MAX == 1000000

-----------------------------------------------------------------------------
(* Vec3f *)

Vec(x, y, z) == <<R(x), R(y), R(z)>>

VAdd(a, b) ==
    Strict2(LAMBDA p, q : <<FAdd(p[1], q[1]), FAdd(p[2], q[2]), FAdd(p[3], q[3])>>, a, b)
VSub(a, b) ==
    Strict2(LAMBDA p, q : <<FSub(p[1], q[1]), FSub(p[2], q[2]), FSub(p[3], q[3])>>, a, b)
VMul(a, b) ==
    Strict2(LAMBDA p, q : <<FMul(p[1], q[1]), FMul(p[2], q[2]), FMul(p[3], q[3])>>, a, b)
VScale(a, k) ==
    Strict2(LAMBDA p, q : <<FMul(p[1], q), FMul(p[2], q), FMul(p[3], q)>>, a, k)
VDiv(a, k) ==
    Strict2(LAMBDA p, q : <<FDiv(p[1], q), FDiv(p[2], q), FDiv(p[3], q)>>, a, k)

dot(a, b) ==
    Strict2(LAMBDA p, q :
                FAdd(FAdd(FMul(p[1], q[1]), FMul(p[2], q[2])), FMul(p[3], q[3])),
            a, b)

cross(a, b) ==
    Strict2(LAMBDA p, q :
                << FSub(FMul(p[2], q[3]), FMul(p[3], q[2])),
                   FSub(FMul(p[3], q[1]), FMul(p[1], q[3])),
                   FSub(FMul(p[1], q[2]), FMul(p[2], q[1])) >>,
            a, b)

lengthsq(a) == Strict1(LAMBDA p : dot(p, p), a)

length(a) == FSqrt(lengthsq(a))

unit(a) == Strict1(LAMBDA p : VDiv(p, length(p)), a)

reflect(v, normal) == VSub(v, VScale(VScale(normal, R(2)), dot(v, normal)))

\* Ray::at
RayAt(r, t) == VAdd(VScale(r.direction, t), r.origin)

-----------------------------------------------------------------------------
(* Interval *)

Interval(min, max) == [min |-> min, max |-> max]

RAY_MIN == 1

new_ray == Interval(R(RAY_MIN), R(F64_MAX))

from_intervals(i0, i1) == Interval(FMin(i0.min, i1.min), FMax(i0.max, i1.max))

expand(i, delta) ==
    Interval(FSub(i.min, FDiv(delta, R(2))), FAdd(i.max, FDiv(delta, R(2))))

size(i) == FSub(i.max, i.min)

\* a test that lets the endpoints in (what C15 rules out)
surroundsClosed(i, x) == FLe(i.min, x) /\ FLe(x, i.max)

surrounds(i, x) == FLt(i.min, x) /\ FLt(x, i.max)

\* as written: the second conjunct compares max with itself
contains(i, x) == FLe(i.min, x) /\ FLe(i.max, i.max)

-----------------------------------------------------------------------------
(* Aabb3d: bounds[a + 1] is the interval of axis a *)

Axes == 0..2

from_intervals3(x_bound, y_bound, z_bound) == <<x_bound, y_bound, z_bound>>

from_corners(corner0, corner1) ==
    from_intervals3(
        Interval(FMin(corner0[1], corner1[1]), FMax(corner0[1], corner1[1])),
        Interval(FMin(corner0[2], corner1[2]), FMax(corner0[2], corner1[2])),
        Interval(FMin(corner0[3], corner1[3]), FMax(corner0[3], corner1[3])))

from_bounds(bounds0, bounds1) ==
    << from_intervals(bounds0[1], bounds1[1]),
       from_intervals(bounds0[2], bounds1[2]),
       from_intervals(bounds0[3], bounds1[3]) >>

\* the body of Aabb3d::hit's loop for axis a and the axes after it
RECURSIVE AabbHitFrom(_, _, _, _, _)
AabbHitFrom(box, r, a, imin, imax) ==
    IF a > 2 THEN TRUE
    ELSE LET inv_d == FDiv(R(1), r.direction[a + 1])
             orig == r.origin[a + 1]
             u0 == FMul(FSub(box[a + 1].min, orig), inv_d)
             u1 == FMul(FSub(box[a + 1].max, orig), inv_d)
             swapped == FLt(inv_d, R(0))
             t0 == IF swapped THEN u1 ELSE u0
             t1 == IF swapped THEN u0 ELSE u1
             imin1 == IF FLt(imin, t0) THEN t0 ELSE imin
             imax1 == IF FLt(t1, imax) THEN t1 ELSE imax
         IN  IF FLe(imax1, imin1) THEN FALSE
             ELSE AabbHitFrom(box, r, a + 1, imin1, imax1)

\* a test that looks at the y and z slabs only (what C16 rules out)
AabbHitSkipX(box, r, i) == AabbHitFrom(box, r, 1, i.min, i.max)

\* Aabb3d::hit
AabbHit(box, r, i) == AabbHitFrom(box, r, 0, i.min, i.max)

DELTA == 10

PadInterval(i) == IF FLe(R(DELTA), size(i)) THEN i ELSE expand(i, R(DELTA))

pad(box) == <<PadInterval(box[1]), PadInterval(box[2]), PadInterval(box[3])>>

\* Aabb3d::lt
lt(lhs, rhs, axis) == FLt(lhs[axis + 1].min, rhs[axis + 1].min)

-----------------------------------------------------------------------------
(* The primitives.  A Hittable is a record with a kind; an Option<HitResult> *)
(* is None or a HitResult record.                                             *)

None == [some |-> FALSE]

HitResult(t, point, normal, material, u, v) ==
    [some |-> TRUE, t |-> t, point |-> point, normal |-> normal,
     material |-> material, u |-> u, v |-> v]

\* Sphere::new
Sphere(center, radius, material) ==
    [kind |-> "sphere", center |-> center, radius |-> radius, material |-> material,
     bounds |-> from_corners(VSub(center, <<radius, radius, radius>>),
                             VAdd(center, <<radius, radius, radius>>))]

\* the discriminant of Sphere::hit
SphereDisc(s, r) ==
    LET oc == VSub(r.origin, s.center)
        a == lengthsq(r.direction)
        half_b == dot(oc, r.direction)
        c == FSub(lengthsq(oc), FMul(s.radius, s.radius))
    IN  FSub(FMul(half_b, half_b), FMul(a, c))

\* Sphere::hit
SphereHit(s, i, r) ==
    LET oc == VSub(r.origin, s.center)
        a == lengthsq(r.direction)
        half_b == dot(oc, r.direction)
        d == SphereDisc(s, r)
        sqrtd == FSqrt(d)
        root1 == FDiv(FSub(FNeg(half_b), sqrtd), a)
        root2 == FDiv(FAdd(FNeg(half_b), sqrtd), a)
        Result(root) ==
            LET point == RayAt(r, root)
            IN  HitResult(root, point, VDiv(VSub(point, s.center), s.radius),
                          s.material, R(0), R(0))
    IN  IF FLt(d, R(0)) THEN None
        ELSE IF surrounds(i, root1) THEN Result(root1)
        ELSE IF surrounds(i, root2) THEN Result(root2)
        ELSE None

\* Plane::new
Plane(xbasis, ybasis, point, material) ==
    [kind |-> "plane", normal |-> unit(cross(xbasis, ybasis)), xbasis |-> xbasis,
     ybasis |-> ybasis, point |-> point, material |-> material,
     bounds |-> from_corners(Vec(-F64_MAX, -F64_MAX, -F64_MAX),
                             Vec(F64_MAX, F64_MAX, F64_MAX))]

\* Plane::hit
PlaneHit(p, i, r) ==
    LET po == VSub(p.point, r.origin)
        t == FDiv(dot(po, p.normal), dot(r.direction, p.normal))
        hit_point == RayAt(r, t)
        offset == VSub(hit_point, p.point)
    IN  IF surrounds(i, t)
        THEN HitResult(t, hit_point, p.normal, p.material,
                       dot(p.xbasis, offset), dot(p.ybasis, offset))
        ELSE None

Uv(u, v) == <<u, v>>

\* Triangle::new
Triangle(a, b, c, uv_a, uv_b, uv_c, material) ==
    LET ab == VSub(b, a)
        ac == VSub(c, a)
        minv == <<FMin(FMin(a[1], b[1]), c[1]), FMin(FMin(a[2], b[2]), c[2]),
                  FMin(FMin(a[3], b[3]), c[3])>>
        maxv == <<FMax(FMax(a[1], b[1]), c[1]), FMax(FMax(a[2], b[2]), c[2]),
                  FMax(FMax(a[3], b[3]), c[3])>>
    IN  [kind |-> "triangle", a |-> a, ab |-> ab, ac |-> ac,
         uv_a |-> uv_a, uv_b |-> uv_b, uv_c |-> uv_c,
         normal |-> cross(ab, ac), material |-> material,
         bounds |-> pad(from_corners(minv, maxv))]

\* a cull that lets every ray through (what C12 rules out)
NeverCulled(d) == FALSE

\* Triangle::hit's test for a back face or a ray parallel to the plane
Culled(d) == FLe(d, R(0))

\* Triangle::hit
TriangleHit(tr, i, r) ==
    LET d == FNeg(dot(tr.normal, r.direction))
        ap == VSub(r.origin, tr.a)
        t == FDiv(dot(ap, tr.normal), d)
        e == cross(VScale(r.direction, R(-1)), ap)
        v == FDiv(dot(tr.ac, e), d)
        w == FDiv(FNeg(dot(tr.ab, e)), d)
        u == FSub(FSub(R(1), v), w)
        uvu == FAdd(FAdd(FMul(tr.uv_a[1], u), FMul(tr.uv_b[1], v)), FMul(tr.uv_c[1], w))
        uvv == FAdd(FAdd(FMul(tr.uv_a[2], u), FMul(tr.uv_b[2], v)), FMul(tr.uv_c[2], w))
    IN  IF Culled(d) THEN None
        ELSE IF ~contains(i, t) THEN None
        ELSE IF FLt(v, R(0)) \/ FLt(R(1), v) THEN None
        ELSE IF FLt(w, R(0)) \/ FLt(R(1), FAdd(v, w)) THEN None
        ELSE HitResult(t, RayAt(r, t), unit(tr.normal), tr.material, uvu, uvv)

\* Bvh { bounds, left, right }
BvhNode(left, right) ==
    [kind |-> "bvh", bounds |-> from_bounds(left.bounds, right.bounds),
     left |-> left, right |-> right]

\* <Bvh as Hittable>::hit's choice between the two children's results
BvhPick(hit_left, hit_right) ==
    Strict2(LAMBDA l, r : IF l.some THEN l ELSE r, hit_left, hit_right)

\* Hittable::hit, dispatched on the kind of h
RECURSIVE Hit(_, _, _)
Hit(h, i, r) ==
    CASE h.kind = "sphere" -> SphereHit(h, i, r)
      [] h.kind = "plane" -> PlaneHit(h, i, r)
      [] h.kind = "triangle" -> TriangleHit(h, i, r)
      [] h.kind = "bvh" ->
            IF ~AabbHit(h.bounds, r, i) THEN None
            ELSE Strict1(LAMBDA hit_left :
                             BvhPick(hit_left,
                                     Hit(h.right,
                                         Interval(i.min,
                                                  IF hit_left.some THEN hit_left.t
                                                  ELSE i.max),
                                         r)),
                         Hit(h.left, i, r))

\* the loop of HittableGroup::hit over group[k..]
RECURSIVE GroupHitFrom(_, _, _, _, _, _)
GroupHitFrom(group, k, i, r, nearest, nearest_result) ==
    IF k > Len(group) THEN nearest_result
    ELSE Strict1(LAMBDA hit_result :
                     IF hit_result.some
                     THEN GroupHitFrom(group, k + 1, i, r, hit_result.t, hit_result)
                     ELSE GroupHitFrom(group, k + 1, i, r, nearest, nearest_result),
                 Hit(group[k], Interval(i.min, nearest), r))

\* <HittableGroup as Hittable>::hit
GroupHit(group, i, r) == GroupHitFrom(group, 1, i, r, i.max, None)

\* the values of nearest in that loop: before group[k] and after each member
\* from group[k] on
RECURSIVE GroupNearestsFrom(_, _, _, _, _)
GroupNearestsFrom(group, k, i, r, nearest) ==
    IF k > Len(group) THEN <<nearest>>
    ELSE Strict1(LAMBDA hit_result :
                     <<nearest>> \o
                     GroupNearestsFrom(group, k + 1, i, r,
                                       IF hit_result.some THEN hit_result.t ELSE nearest),
                 Hit(group[k], Interval(i.min, nearest), r))

GroupNearests(group, i, r) == GroupNearestsFrom(group, 1, i, r, i.max)

-----------------------------------------------------------------------------
(* Bvh::new.  The axis of every call is drawn at random, so the constructor  *)
(* is modelled by the set of trees it can return.                            *)

\* the permutations of the sequence s
Perms(s) ==
    { [k \in 1..Len(s) |-> s[f[k]]] :
        f \in { g \in [1..Len(s) -> 1..Len(s)] :
                    \A a, b \in 1..Len(s) : a # b => g[a] # g[b] } }

\* a sort that leaves the list in any order (what C19 rules out)
SortOutcomesAny(objs, axis) == Perms(objs)

\* objects.sort_by(..): the comparator answers Greater when a's box minimum is
\* below b's and Less otherwise, so the larger minima come first; it never
\* answers Equal, and the order among equal minima is left open
SortOutcomes(objs, axis) ==
    { s \in Perms(objs) :
        \A a, b \in 1..Len(s) : a < b => ~lt(s[a].bounds, s[b].bounds, axis) }

RECURSIVE BvhNew(_)
RECURSIVE BvhNewOn(_, _)

\* Bvh::new with the axis drawn
BvhNewOn(objs, axis) ==
    IF Len(objs) = 1 THEN { BvhNode(objs[1], objs[1]) }
    ELSE IF Len(objs) = 2
    THEN IF lt(objs[1].bounds, objs[2].bounds, axis)
         THEN { BvhNode(objs[1], objs[2]) }
         ELSE { BvhNode(objs[2], objs[1]) }
    ELSE LET mid == Len(objs) \div 2
         IN  UNION { { BvhNode(l, r) :
                        l \in BvhNew(SubSeq(s, 1, mid)),
                        r \in BvhNew(SubSeq(s, mid + 1, Len(s))) } :
                     s \in SortOutcomes(objs, axis) }

\* Bvh::new(objects): every tree it can return
BvhNew(objs) == UNION { BvhNewOn(objs, axis) : axis \in Axes }

-----------------------------------------------------------------------------
(* Materials and textures *)

SolidColor(value) == [kind |-> "solid", value |-> value]

CheckerTexture(even_color, odd_color, scale) ==
    [kind |-> "checker", even_color |-> even_color, odd_color |-> odd_color,
     scale |-> scale]

\* f64::round as i32, for a finite f: half-way cases round away from zero
RoundI32(f) ==
    LET twice == (2 * Abs(f[1]) + f[2]) \div (2 * f[2])
    IN  IF f[1] < 0 THEN -twice ELSE twice

\* Texture::value
TextureValue(tex, u, v, point) ==
    IF tex.kind = "solid" THEN tex.value
    ELSE LET ix == RoundI32(FMul(u, tex.scale))
             iy == RoundI32(FMul(v, tex.scale))
         IN  IF (ix + iy) % 2 = 0 THEN tex.even_color ELSE tex.odd_color

Diffuse(texture) == [kind |-> "diffuse", albedo |-> texture]
Metal(texture) == [kind |-> "metal", albedo |-> texture]
DiffuseLight(texture) == [kind |-> "light", emit |-> texture]

\* Material::emit
Emit(m, u, v) ==
    IF m.kind = "light" THEN TextureValue(m.emit, u, v, Vec(0, 0, 0)) ELSE Vec(0, 0, 0)

NoScatter == [some |-> FALSE]

\* Material::scatter; rand is the vector Vec3f::rand() returns to Diffuse
Scatter(m, r, hit_result, rand) ==
    CASE m.kind = "diffuse" ->
            [some |-> TRUE,
             attenuation |-> TextureValue(m.albedo, hit_result.u, hit_result.v,
                                          hit_result.point),
             scattered |-> [origin |-> hit_result.point,
                            direction |-> VAdd(hit_result.normal, rand)]]
      [] m.kind = "metal" ->
            [some |-> TRUE,
             attenuation |-> TextureValue(m.albedo, hit_result.u, hit_result.v,
                                          hit_result.point),
             scattered |-> [origin |-> hit_result.point,
                            direction |-> reflect(r.direction, hit_result.normal)]]
      [] m.kind = "light" -> NoScatter

-----------------------------------------------------------------------------
(* The scenes of the geometry checks *)

\* the number of primitives handed to Bvh::new is 1..MaxObjs
MaxObjs == 3

Gray == Metal(SolidColor(Vec(1, 1, 1)))
White == DiffuseLight(SolidColor(Vec(10, 10, 10)))
Purple == Diffuse(SolidColor(Vec(1, 0, 1)))

\* spheres of radius 1 on the integer lattice: an axis-parallel lattice ray has
\* discriminant 1 (through the centre), 0 (grazing) or below 0 (miss)
Prims ==
    << Sphere(Vec(2, 2, 2), R(1), Gray),
       Sphere(Vec(2, 6, 2), R(1), Purple),
       Triangle(Vec(0, 0, 4), Vec(4, 0, 4), Vec(0, 4, 4),
                Uv(R(0), R(0)), Uv(R(1), R(0)), Uv(R(0), R(1)), Gray),
       Plane(Vec(1, 0, 0), Vec(0, 0, -1), Vec(0, -1, 0), Purple) >>

\* the lists of distinct primitives of length 1..MaxObjs
ObjectLists ==
    UNION { { [k \in 1..n |-> Prims[f[k]]] :
                f \in { g \in [1..n -> 1..Len(Prims)] :
                            \A a, b \in 1..n : a # b => g[a] # g[b] } } :
            n \in 1..MaxObjs }

Dirs ==
    { Vec(1, 0, 0), Vec(-1, 0, 0), Vec(0, 1, 0), Vec(0, -1, 0),
      Vec(0, 0, 1), Vec(0, 0, -1) }

Origins ==
    { Vec(9, 2, 2), Vec(-3, 2, 2), Vec(2, 9, 2), Vec(2, 2, 9), Vec(1, 1, 9),
      Vec(2, 3, 9), Vec(6, 2, 9), Vec(9, 3, 2), Vec(2, 2, 2) }

\* rays that meet the plane z = 4 at a slant, from above and from below
Slanted ==
    { [origin |-> Vec(1, 1, 9), direction |-> Vec(0, 1, -5)],
      [origin |-> Vec(2, 3, 9), direction |-> Vec(1, -1, -5)],
      [origin |-> Vec(2, 2, 2), direction |-> Vec(0, -1, 2)] }

Rays == { [origin |-> o, direction |-> d] : o \in Origins, d \in Dirs } \cup Slanted

Intervals == { new_ray, Interval(R(0), R(4)), Interval(R(1), R(8)) }

\* every square root the query takes is exact
Exact(objs, r) ==
    \A k \in 1..Len(objs) :
        /\ objs[k].kind = "sphere" =>
              LET d == SphereDisc(objs[k], r) IN FLt(d, R(0)) \/ ExactSqrt(d)
        /\ objs[k].kind = "triangle" => ExactSqrt(lengthsq(objs[k].normal))

\* the second triangle of a quad: it shares the edge (4, 0, 4)-(0, 4, 4) with
\* the triangle of Prims and faces the same way
QuadHalf ==
    Triangle(Vec(4, 0, 4), Vec(4, 4, 4), Vec(0, 4, 4),
             Uv(R(1), R(0)), Uv(R(1), R(1)), Uv(R(0), R(1)), Gray)

\* a sphere above the triangle of Prims
Above == Sphere(Vec(1, 1, 7), R(1), White)

\* a tessellated quad, and a sphere in front of a triangle, in both orders
MeshLists ==
    { <<Prims[3], QuadHalf>>, <<QuadHalf, Prims[3]>>,
      <<Above, Prims[3]>>, <<Prims[3], Above>> }

\* rays none of whose direction components is zero
BoxDirs ==
    { Vec(1, 1, 1), Vec(-1, -1, -1), Vec(1, -1, -2), Vec(-2, 1, -1), Vec(-1, -1, -2),
      Vec(-3, -1, 1) }

BoxOrigins == { Vec(9, 2, 2), Vec(-3, 2, 2), Vec(2, 2, 9), Vec(2, 2, 2) }

BoxRays == { [origin |-> o, direction |-> d] : o \in BoxOrigins, d \in BoxDirs }

\* the values handed to Interval::contains and Interval::surrounds
Probes ==
    { R(-1), R(0), Frac(1, 2), R(1), R(2), R(4), R(5), R(8), R(9), R(F64_MAX),
      PosInf, NegInf, NaN }

GInit ==
    /\ gpc = "new"
    /\ objects \in ObjectLists \cup MeshLists
    /\ bvh = None
    /\ ray = [origin |-> Vec(0, 0, 0), direction |-> Vec(0, 0, 0)]
    /\ interval = new_ray
    /\ bvhHit = None
    /\ groupHit = None
    /\ primHits = <<>>
    /\ boxHit = FALSE
    /\ probe = R(0)
    /\ probeIn = FALSE
    /\ probeAround = FALSE

\* let bvh = Bvh::new(&mut objects)
Build ==
    /\ gpc = "new"
    /\ bvh' \in BvhNew(objects)
    /\ gpc' = "built"
    /\ UNCHANGED <<objects, ray, interval, bvhHit, groupHit, primHits, boxHit, probe,
                   probeIn, probeAround>>
    /\ UNCHANGED <<rvars, cvars, nvars>>

\* interval.contains(x) and interval.surrounds(x) for one interval and one x
Test ==
    /\ gpc = "new"
    /\ \E i \in Intervals, x \in Probes :
        /\ interval' = i
        /\ probe' = x
        /\ probeIn' = contains(i, x)
        /\ probeAround' = surrounds(i, x)
    /\ gpc' = "tested"
    /\ UNCHANGED <<objects, bvh, ray, bvhHit, groupHit, primHits, boxHit>>
    /\ UNCHANGED <<rvars, cvars, nvars>>

\* self.bounds.hit(ray, interval), the first step of Bvh::hit, for one ray and
\* one interval
BoxQuery ==
    /\ gpc = "built"
    /\ \E r \in BoxRays, i \in Intervals :
        /\ ray' = r
        /\ interval' = i
        /\ boxHit' = AabbHit(bvh.bounds, r, i)
    /\ gpc' = "boxed"
    /\ UNCHANGED <<objects, bvh, bvhHit, groupHit, primHits, probe, probeIn, probeAround>>
    /\ UNCHANGED <<rvars, cvars, nvars>>

\* one query of the tree, of the flat group and of each member, for the same
\* ray and interval
Query ==
    /\ gpc = "built"
    /\ \E r \in { x \in Rays : Exact(objects, x) }, i \in Intervals :
        /\ ray' = r
        /\ interval' = i
        /\ bvhHit' = Hit(bvh, i, r)
        /\ groupHit' = GroupHit(objects, i, r)
        /\ primHits' = [k \in 1..Len(objects) |-> Hit(objects[k], i, r)]
    /\ gpc' = "queried"
    /\ UNCHANGED <<objects, bvh, boxHit, probe, probeIn, probeAround>>
    /\ UNCHANGED <<rvars, cvars, nvars>>

-----------------------------------------------------------------------------
(* The renderer (main.rs).  IMAGE_WIDTH and SAMPLES are 768 and 444 in the   *)
(* source and small here; IMAGE_HEIGHT and THREADS are 768 and 64 in the     *)
(* source and range over 0..MaxHeight and 1..MaxThreads here.                *)

IMAGE_WIDTH == 2
SAMPLES == 2
MaxHeight == 4
MaxThreads == 2

BACKGROUND == Vec(0, 0, 0)

\* rand::thread_rng(): a deterministic stream per thread; the state after one draw
RngNext(s) == ((5 * s) + 3) % 8

\* the number drawn in state s
RngDraw(s) == s \div 4

\* the states a thread's generator can start from
Seeds == {0, 2}

\* camera.raycast(&camera.intial_ray(x, y), &world, 5) for the jitter drawn: the
\* radiance the scene sends through the half j of pixel (x, y)
SampleRadiance(x, y, j) ==
    LET k == ((2 * x) + j + (3 * y)) % 4
    IN  CASE k = 0 -> BACKGROUND
          [] k = 1 -> Vec(10, 10, 10)
          [] k = 2 -> Vec(1, 0, 1)
          [] k = 3 -> Vec(0, -1, 1)

\* the loop over the samples of one pixel: <<color, rng>> after samples n..SAMPLES-1
RECURSIVE SampleLoop(_, _, _, _, _)
SampleLoop(x, y, n, color, g) ==
    IF n >= SAMPLES THEN <<color, g>>
    ELSE SampleLoop(x, y, n + 1, VAdd(color, SampleRadiance(x, y, RngDraw(g))), RngNext(g))

\* a conversion that wraps modulo 256 instead of saturating (what C10 rules out)
AsU8Wrapping(f) ==
    IF IsNaN(f) \/ ~IsFinite(f) THEN 0
    ELSE LET q == Abs(f[1]) \div f[2]
         IN  IF f[1] < 0 THEN (256 - (q % 256)) % 256 ELSE q % 256

\* f as u8: NaN is 0, the fraction is dropped, and the value saturates at 0 and 255
AsU8(f) ==
    IF IsNaN(f) \/ FLe(f, R(0)) THEN 0
    ELSE IF FLe(R(255), f) THEN 255
    ELSE f[1] \div f[2]

\* Pixel { r, g, b } of the averaged colour
ToPixel(color) ==
    [r |-> AsU8(FMul(color[1], R(255))),
     g |-> AsU8(FMul(color[2], R(255))),
     b |-> AsU8(FMul(color[3], R(255)))]

\* the loop over x of one row: <<pixels, colors, rng>> after columns x..IMAGE_WIDTH-1
RECURSIVE RowLoop(_, _, _, _, _)
RowLoop(x, y, pixels, cols, g) ==
    IF x >= IMAGE_WIDTH THEN <<pixels, cols, g>>
    ELSE Strict1(LAMBDA sl :
                     Strict1(LAMBDA color :
                                 RowLoop(x + 1, y, Append(pixels, ToPixel(color)),
                                         Append(cols, color), sl[2]),
                             VDiv(sl[1], R(SAMPLES))),
                 SampleLoop(x, y, 0, Vec(0, 0, 0), g))

\* render(.., row_start, row_end, ..) run by one thread whose generator starts in
\* state g: the fragment it returns
RECURSIVE RenderRows(_, _, _, _, _)
RenderRows(y, end, pixels, cols, g) ==
    IF y >= end THEN pixels
    ELSE Strict1(LAMBDA rl : RenderRows(y + 1, end, rl[1], rl[2], rl[3]),
                 RowLoop(0, y, pixels, cols, g))

\* a partition that drops the remainder rows (what C5 rules out)
RowsNoRemainder(h, t) == [i \in 1..t |-> h \div t]

\* the rows array of main
Rows(h, t) ==
    LET rows_common == h \div t
        rows_last == rows_common + (h % t)
    IN  [i \in 1..t |-> IF i = t THEN rows_last ELSE rows_common]

Workers == 1..threads

Positions == (0..(IMAGE_WIDTH - 1)) \X (0..MaxHeight)

NoPixel == [r |-> -1, g |-> -1, b |-> -1]

RInit ==
    /\ imageHeight \in 0..MaxHeight
    /\ threads \in 1..MaxThreads
    /\ mpc = "spawn"
    /\ start = 0
    /\ wpc = [i \in Workers |-> "unborn"]
    /\ row_start = [i \in Workers |-> 0]
    /\ row_end = [i \in Workers |-> 0]
    /\ row = [i \in Workers |-> 0]
    /\ rng = [i \in Workers |-> 0]
    /\ seed = [i \in Workers |-> 0]
    /\ fragment = [i \in Workers |-> <<>>]
    /\ colors = [i \in Workers |-> <<>>]
    /\ counter = [i \in Workers |-> 0]
    /\ mutex = 0
    /\ completed = 0
    /\ progress = <<>>
    /\ finished = <<>>
    /\ fragments = <<>>
    /\ buffer = [p \in Positions |-> NoPixel]
    /\ writes = [p \in Positions |-> 0]
    /\ fi = 1
    /\ pi = 1
    /\ bx = 0
    /\ by = 0

\* the worker the next iteration of main's spawn loop starts
NextSpawn == CHOOSE i \in Workers : wpc[i] = "unborn" /\ \A j \in 1..(i - 1) : wpc[j] # "unborn"

\* one iteration of the spawn loop: thread i starts render(.., start, end, ..)
Spawn ==
    /\ mpc = "spawn"
    /\ LET i == NextSpawn
           end == start + Rows(imageHeight, threads)[i]
       IN  /\ \E s \in Seeds :
                /\ seed' = [seed EXCEPT ![i] = s]
                /\ rng' = [rng EXCEPT ![i] = s]
           /\ wpc' = [wpc EXCEPT ![i] = "row"]
           /\ row_start' = [row_start EXCEPT ![i] = start]
           /\ row_end' = [row_end EXCEPT ![i] = end]
           /\ row' = [row EXCEPT ![i] = start]
           /\ start' = end
           /\ mpc' = IF i = threads THEN "join" ELSE "spawn"
    /\ UNCHANGED <<imageHeight, threads, fragment, colors, counter, mutex, completed,
                   progress, finished, fragments, buffer, writes, fi, pi, bx, by>>
    /\ UNCHANGED <<gvars, cvars, nvars>>

\* worker i renders the pixels of its next row
RenderRow(i) ==
    /\ wpc[i] = "row"
    /\ row[i] < row_end[i]
    /\ \E rl \in { RowLoop(0, row[i], fragment[i], colors[i], rng[i]) } :
           /\ fragment' = [fragment EXCEPT ![i] = rl[1]]
           /\ colors' = [colors EXCEPT ![i] = rl[2]]
           /\ rng' = [rng EXCEPT ![i] = rl[3]]
    /\ wpc' = [wpc EXCEPT ![i] = "lock"]
    /\ UNCHANGED <<imageHeight, threads, mpc, start, row_start, row_end, row, seed,
                   counter, mutex, completed, progress, finished, fragments, buffer,
                   writes, fi, pi, bx, by>>
    /\ UNCHANGED <<gvars, cvars, nvars>>

\* a lock that is granted whoever holds the mutex (what C9 rules out)
CanLockAlways(i) == TRUE

\* completed.lock() succeeds when no thread holds the mutex
CanLock(i) == mutex = 0

\* let mut counter = completed.lock().unwrap()
Lock(i) ==
    /\ wpc[i] = "lock"
    /\ CanLock(i)
    /\ mutex' = i
    /\ wpc' = [wpc EXCEPT ![i] = "load"]
    /\ UNCHANGED <<imageHeight, threads, mpc, start, row_start, row_end, row, rng, seed,
                   fragment, colors, counter, completed, progress, finished, fragments,
                   buffer, writes, fi, pi, bx, by>>
    /\ UNCHANGED <<gvars, cvars, nvars>>

\* *counter += 1, the load
Load(i) ==
    /\ wpc[i] = "load"
    /\ counter' = [counter EXCEPT ![i] = completed]
    /\ wpc' = [wpc EXCEPT ![i] = "store"]
    /\ UNCHANGED <<imageHeight, threads, mpc, start, row_start, row_end, row, rng, seed,
                   fragment, colors, mutex, completed, progress, finished, fragments,
                   buffer, writes, fi, pi, bx, by>>
    /\ UNCHANGED <<gvars, cvars, nvars>>

\* *counter += 1, the store, and update_progress(*counter); the counter is a u32
\* and never exceeds the image height, far below 2^32
Store(i) ==
    /\ wpc[i] = "store"
    /\ completed' = counter[i] + 1
    /\ progress' = Append(progress, completed')
    /\ wpc' = [wpc EXCEPT ![i] = "unlock"]
    /\ UNCHANGED <<imageHeight, threads, mpc, start, row_start, row_end, row, rng, seed,
                   fragment, colors, counter, mutex, finished, fragments, buffer, writes,
                   fi, pi, bx, by>>
    /\ UNCHANGED <<gvars, cvars, nvars>>

\* a row loop that goes on with the guard still held (what C20 rules out)
UnlockNever(i) ==
    /\ wpc[i] = "unlock"
    /\ row' = [row EXCEPT ![i] = row[i] + 1]
    /\ wpc' = [wpc EXCEPT ![i] = "row"]
    /\ UNCHANGED <<imageHeight, threads, mpc, start, row_start, row_end, rng, seed,
                   fragment, colors, counter, mutex, completed, progress, finished,
                   fragments, buffer, writes, fi, pi, bx, by>>
    /\ UNCHANGED <<gvars, cvars, nvars>>

\* the guard is dropped at the end of the block; the row loop goes on
Unlock(i) ==
    /\ wpc[i] = "unlock"
    /\ mutex' = 0
    /\ row' = [row EXCEPT ![i] = row[i] + 1]
    /\ wpc' = [wpc EXCEPT ![i] = "row"]
    /\ UNCHANGED <<imageHeight, threads, mpc, start, row_start, row_end, rng, seed,
                   fragment, colors, counter, completed, progress, finished, fragments,
                   buffer, writes, fi, pi, bx, by>>
    /\ UNCHANGED <<gvars, cvars, nvars>>

\* render returns its fragment
Return(i) ==
    /\ wpc[i] = "row"
    /\ row[i] >= row_end[i]
    /\ wpc' = [wpc EXCEPT ![i] = "done"]
    /\ finished' = Append(finished, i)
    /\ UNCHANGED <<imageHeight, threads, mpc, start, row_start, row_end, row, rng, seed,
                   fragment, colors, counter, mutex, completed, progress, fragments,
                   buffer, writes, fi, pi, bx, by>>
    /\ UNCHANGED <<gvars, cvars, nvars>>

\* joining the handles in the order the workers finish (what C3 rules out)
JoinTargetByCompletion ==
    IF Len(finished) > Len(fragments) THEN finished[Len(fragments) + 1]
    ELSE CHOOSE j \in Workers : wpc[j] # "done"

\* the handle the next join waits for: threads.into_iter() yields them in spawn order
JoinTarget == Len(fragments) + 1

\* handle.join().unwrap(), collected into fragments
Join ==
    /\ mpc = "join"
    /\ LET j == JoinTarget
       IN  /\ wpc[j] = "done"
           /\ fragments' = Append(fragments, fragment[j])
    /\ mpc' = IF Len(fragments') = threads THEN "assemble" ELSE "join"
    /\ UNCHANGED <<imageHeight, threads, start, wpc, row_start, row_end, row, rng, seed,
                   fragment, colors, counter, mutex, completed, progress, finished,
                   buffer, writes, fi, pi, bx, by>>
    /\ UNCHANGED <<gvars, cvars, nvars>>

\* one iteration of the inner reassembly loop: put_pixel(x, y, ..), then x and y advance
PutPixel ==
    /\ mpc = "assemble"
    /\ fi <= Len(fragments)
    /\ pi <= Len(fragments[fi])
    /\ bx < IMAGE_WIDTH /\ by < imageHeight
    /\ buffer' = [buffer EXCEPT ![<<bx, by>>] = fragments[fi][pi]]
    /\ writes' = [writes EXCEPT ![<<bx, by>>] = @ + 1]
    /\ pi' = pi + 1
    /\ bx' = IF bx + 1 = IMAGE_WIDTH THEN 0 ELSE bx + 1
    /\ by' = IF bx + 1 = IMAGE_WIDTH THEN by + 1 ELSE by
    /\ UNCHANGED <<imageHeight, threads, mpc, start, wpc, row_start, row_end, row, rng,
                   seed, fragment, colors, counter, mutex, completed, progress, finished,
                   fragments, fi>>
    /\ UNCHANGED <<gvars, cvars, nvars>>

\* the outer reassembly loop moves to the next fragment
NextFragment ==
    /\ mpc = "assemble"
    /\ fi <= Len(fragments)
    /\ pi > Len(fragments[fi])
    /\ fi' = fi + 1
    /\ pi' = 1
    /\ UNCHANGED <<imageHeight, threads, mpc, start, wpc, row_start, row_end, row, rng,
                   seed, fragment, colors, counter, mutex, completed, progress, finished,
                   fragments, buffer, writes, bx, by>>
    /\ UNCHANGED <<gvars, cvars, nvars>>

\* buffer.save("render.png")
Save ==
    /\ mpc = "assemble"
    /\ fi > Len(fragments)
    /\ mpc' = "done"
    /\ UNCHANGED <<imageHeight, threads, start, wpc, row_start, row_end, row, rng, seed,
                   fragment, colors, counter, mutex, completed, progress, finished,
                   fragments, buffer, writes, fi, pi, bx, by>>
    /\ UNCHANGED <<gvars, cvars, nvars>>

RenderNext ==
    \/ Spawn
    \/ \E i \in Workers : RenderRow(i)
    \/ \E i \in Workers : Lock(i)
    \/ \E i \in Workers : Load(i)
    \/ \E i \in Workers : Store(i)
    \/ \E i \in Workers : Unlock(i)
    \/ \E i \in Workers : Return(i)
    \/ Join
    \/ PutPixel
    \/ NextFragment
    \/ Save

-----------------------------------------------------------------------------
(* Camera::raycast, one action per call and one per return *)

\* the depth of the outermost call is 0..MaxDepth (render passes 5)
MaxDepth == 3

Checker == CheckerTexture(Vec(1, 1, 1), Vec(1, 0, 0), R(1))

Worlds ==
    { \* a light alone
      << Sphere(Vec(6, 2, 2), R(1), White) >>,
      \* two mirrors facing each other
      << Sphere(Vec(2, 2, 2), R(1), Gray), Sphere(Vec(6, 2, 2), R(1), Gray) >>,
      \* a mirror in front of a light
      << Sphere(Vec(2, 2, 2), R(1), Gray), Sphere(Vec(6, 2, 2), R(1), White) >>,
      \* a diffuse floor, a checkered light panel above it
      << Plane(Vec(1, 0, 0), Vec(0, 0, -1), Vec(0, -1, 0), Diffuse(Checker)),
         Plane(Vec(1, 0, 0), Vec(0, 0, 1), Vec(0, 12, 0), DiffuseLight(Checker)),
         Sphere(Vec(2, 6, 2), R(1), Purple) >>,
      \* a mesh of one triangle and one sphere, and a light
      << BvhNode(Prims[3], Prims[1]), Sphere(Vec(2, 2, 9), R(1), White) >> }

Backgrounds == { BACKGROUND, Vec(1, 2, 3) }

\* the vectors Vec3f::rand() is taken to return
RandUnits == Dirs

\* the primitives below the members of a group
RECURSIVE Leaves(_)
Leaves(h) == IF h.kind = "bvh" THEN Leaves(h.left) \o Leaves(h.right) ELSE <<h>>

RECURSIVE GroupLeaves(_)
GroupLeaves(group) ==
    IF group = <<>> THEN <<>> ELSE Leaves(Head(group)) \o GroupLeaves(Tail(group))

CastRays ==
    { [origin |-> o, direction |-> d] :
        o \in { Vec(9, 2, 2), Vec(4, 2, 2), Vec(2, 3, 2), Vec(2, 2, 6), Vec(3, 9, 2) },
        d \in Dirs }

CInit ==
    /\ cpc = "call"
    /\ world \in Worlds
    /\ background \in Backgrounds
    /\ primary \in { r \in CastRays : Exact(GroupLeaves(world), r) }
    /\ depth0 \in 0..MaxDepth
    /\ cray = primary
    /\ cdepth = depth0
    /\ cstack = <<>>
    /\ cvalue = Vec(0, 0, 0)
    /\ queries = 0
    /\ calls = 0

\* a recursion that does not count down (what C7 rules out)
NextDepthSame(depth) == depth

\* the depth handed to the recursive call
NextDepth(depth) == depth - 1

\* a depth test that lets a call at depth 0 query the scene (what C6 rules out)
OutOfDepthLate(depth) == depth < 0

\* whether raycast returns the background without looking at the scene
OutOfDepth(depth) == depth = 0

\* a return that adds the background to the emitted colour (what C8 rules out)
UnscatteredPlusBackground(emitted) == VAdd(emitted, background)

\* what raycast returns for a hit whose material does not scatter
Unscattered(emitted) == emitted

\* a return that scales the recursive value by the sum of the attenuation's
\* channels instead of channel by channel (what C18 rules out)
ScatteredBySum(emitted, attenuation, value) ==
    VAdd(emitted, VScale(value, FAdd(FAdd(attenuation[1], attenuation[2]), attenuation[3])))

\* what a suspended call returns once its recursive call has returned value
Scattered(emitted, attenuation, value) == VAdd(emitted, VMul(attenuation, value))

\* a call of raycast(cray, world, cdepth) runs up to its recursive call or its return
Call ==
    /\ cpc = "call"
    /\ IF OutOfDepth(cdepth)
       THEN /\ cvalue' = background
            /\ cpc' = "return"
            /\ UNCHANGED <<cray, cdepth, cstack, queries, calls>>
       ELSE \E hit_result \in { GroupHit(world, new_ray, cray) } :
                /\ queries' = queries + 1
                /\ IF ~hit_result.some
                   THEN /\ cvalue' = background
                        /\ cpc' = "return"
                        /\ UNCHANGED <<cray, cdepth, cstack, calls>>
                   ELSE \E emitted \in { Emit(hit_result.material, hit_result.u, hit_result.v) } :
                        \E rand \in RandUnits :
                        \E sc \in { Scatter(hit_result.material, cray, hit_result, rand) } :
                              IF sc.some
                              THEN /\ Exact(GroupLeaves(world), sc.scattered)
                                   /\ cstack' = Append(cstack,
                                         [emitted |-> emitted,
                                          attenuation |-> sc.attenuation])
                                   /\ cray' = sc.scattered
                                   /\ cdepth' = NextDepth(cdepth)
                                   /\ calls' = calls + 1
                                   /\ cpc' = "call"
                                   /\ UNCHANGED cvalue
                              ELSE /\ cvalue' = Unscattered(emitted)
                                   /\ cpc' = "return"
                                   /\ UNCHANGED <<cray, cdepth, cstack, calls>>
    /\ UNCHANGED <<world, background, primary, depth0>>
    /\ UNCHANGED <<gvars, rvars, nvars>>

\* the innermost call returns cvalue to the call that made it
Return1 ==
    /\ cpc = "return"
    /\ cstack # <<>>
    /\ LET frame == cstack[Len(cstack)]
       IN  cvalue' = Scattered(frame.emitted, frame.attenuation, cvalue)
    /\ cstack' = SubSeq(cstack, 1, Len(cstack) - 1)
    /\ UNCHANGED <<cpc, world, background, primary, depth0, cray, cdepth, queries, calls>>
    /\ UNCHANGED <<gvars, rvars, nvars>>

\* the outermost call returns cvalue to render
Finish ==
    /\ cpc = "return"
    /\ cstack = <<>>
    /\ cpc' = "done"
    /\ UNCHANGED <<world, background, primary, depth0, cray, cdepth, cstack, cvalue,
                   queries, calls>>
    /\ UNCHANGED <<gvars, rvars, nvars>>

CastNext == Call \/ Return1 \/ Finish

-----------------------------------------------------------------------------
(* Bvh::new, one action per call.  The call descends into the left half      *)
(* before the right one; the calls still to start are kept on nstack.        *)

\* the depth of recursion the thread's stack has room for
MaxCallDepth == 4

\* the lists load_mesh can hand to Bvh::new: the faces of a mesh, possibly none
FaceLists == ObjectLists \cup MeshLists \cup { <<>> }

\* the call Bvh::new(objs) made at depth by a call whose list had span elements
\* (-1 for the call load_mesh makes)
NewCall(objs, depth, span) == [objects |-> objs, depth |-> depth, span |-> span]

NInit ==
    /\ npc = "call"
    /\ faces \in FaceLists
    /\ nstack = << NewCall(faces, 1, -1) >>
    /\ nleaves = <<>>

\* a call with objects.len() == 1: both children are objects[0]
NewOne ==
    /\ npc = "call"
    /\ nstack # <<>>
    /\ LET call == nstack[Len(nstack)]
       IN  /\ call.depth <= MaxCallDepth
           /\ Len(call.objects) = 1
           /\ nleaves' = nleaves \o << call.objects[1], call.objects[1] >>
    /\ nstack' = SubSeq(nstack, 1, Len(nstack) - 1)
    /\ UNCHANGED <<npc, faces>>
    /\ UNCHANGED <<gvars, rvars, cvars>>

\* a call with objects.len() == 2: the two are the children, ordered by lt
NewTwo ==
    /\ npc = "call"
    /\ nstack # <<>>
    /\ LET call == nstack[Len(nstack)]
       IN  /\ call.depth <= MaxCallDepth
           /\ Len(call.objects) = 2
           /\ \E axis \in Axes :
                 nleaves' = nleaves \o
                     (IF lt(call.objects[1].bounds, call.objects[2].bounds, axis)
                      THEN << call.objects[1], call.objects[2] >>
                      ELSE << call.objects[2], call.objects[1] >>)
    /\ nstack' = SubSeq(nstack, 1, Len(nstack) - 1)
    /\ UNCHANGED <<npc, faces>>
    /\ UNCHANGED <<gvars, rvars, cvars>>

\* a call with any other length, 0 included: sort, split at span / 2, and call
\* Bvh::new on the left part and then on the right part
NewSplit ==
    /\ npc = "call"
    /\ nstack # <<>>
    /\ LET call == nstack[Len(nstack)]
           span == Len(call.objects)
           mid == span \div 2
       IN  /\ call.depth <= MaxCallDepth
           /\ span # 1 /\ span # 2
           /\ \E axis \in Axes : \E s \in SortOutcomes(call.objects, axis) :
                 nstack' = SubSeq(nstack, 1, Len(nstack) - 1) \o
                     << NewCall(SubSeq(s, mid + 1, span), call.depth + 1, span),
                        NewCall(SubSeq(s, 1, mid), call.depth + 1, span) >>
    /\ UNCHANGED <<npc, faces, nleaves>>
    /\ UNCHANGED <<gvars, rvars, cvars>>

\* the recursion has used up the stack: the process is aborted
NewOverflow ==
    /\ npc = "call"
    /\ nstack # <<>>
    /\ nstack[Len(nstack)].depth > MaxCallDepth
    /\ npc' = "overflow"
    /\ UNCHANGED <<faces, nstack, nleaves>>
    /\ UNCHANGED <<gvars, rvars, cvars>>

\* the outermost call returns the tree
NewDone ==
    /\ npc = "call"
    /\ nstack = <<>>
    /\ npc' = "done"
    /\ UNCHANGED <<faces, nstack, nleaves>>
    /\ UNCHANGED <<gvars, rvars, cvars>>

NewNext == NewOne \/ NewTwo \/ NewSplit \/ NewOverflow \/ NewDone

-----------------------------------------------------------------------------
(* The specifications: each one runs one part and leaves the others idle *)

NIdle ==
    /\ npc = "idle"
    /\ faces = <<>>
    /\ nstack = <<>>
    /\ nleaves = <<>>

GIdle ==
    /\ gpc = "idle"
    /\ objects = <<>>
    /\ bvh = None
    /\ ray = [origin |-> Vec(0, 0, 0), direction |-> Vec(0, 0, 0)]
    /\ interval = new_ray
    /\ bvhHit = None
    /\ groupHit = None
    /\ primHits = <<>>
    /\ boxHit = FALSE
    /\ probe = R(0)
    /\ probeIn = FALSE
    /\ probeAround = FALSE

RIdle ==
    /\ imageHeight = 0
    /\ threads = 0
    /\ mpc = "idle"
    /\ start = 0
    /\ wpc = <<>>
    /\ row_start = <<>>
    /\ row_end = <<>>
    /\ row = <<>>
    /\ rng = <<>>
    /\ seed = <<>>
    /\ fragment = <<>>
    /\ colors = <<>>
    /\ counter = <<>>
    /\ mutex = 0
    /\ completed = 0
    /\ progress = <<>>
    /\ finished = <<>>
    /\ fragments = <<>>
    /\ buffer = <<>>
    /\ writes = <<>>
    /\ fi = 1
    /\ pi = 1
    /\ bx = 0
    /\ by = 0

CIdle ==
    /\ cpc = "idle"
    /\ world = <<>>
    /\ background = BACKGROUND
    /\ primary = [origin |-> Vec(0, 0, 0), direction |-> Vec(0, 0, 0)]
    /\ depth0 = 0
    /\ cray = [origin |-> Vec(0, 0, 0), direction |-> Vec(0, 0, 0)]
    /\ cdepth = 0
    /\ cstack = <<>>
    /\ cvalue = Vec(0, 0, 0)
    /\ queries = 0
    /\ calls = 0

vars == <<gvars, rvars, cvars, nvars>>

\* the geometry: an interval test, or Bvh::new and then one query
Init == GInit /\ RIdle /\ CIdle /\ NIdle
Next == Build \/ Query \/ BoxQuery \/ Test
Spec == Init /\ [][Next]_vars

\* the renderer
RenderInit == GIdle /\ RInit /\ CIdle /\ NIdle
SpecRender == RenderInit /\ [][RenderNext]_vars

\* the steps of the main thread and of worker i
MainStep == Spawn \/ Join \/ PutPixel \/ NextFragment \/ Save

WorkerStep(i) ==
    /\ i \in Workers
    /\ RenderRow(i) \/ Lock(i) \/ Load(i) \/ Store(i) \/ Unlock(i) \/ Return(i)

\* the renderer under a fair scheduler: a thread that can take a step, the main
\* thread or a worker, is not held back forever
SpecRenderFair ==
    /\ RenderInit
    /\ [][RenderNext]_vars
    /\ WF_vars(MainStep)
    /\ \A i \in 1..MaxThreads : WF_vars(WorkerStep(i))

\* Camera::raycast
CastInit == GIdle /\ RIdle /\ CInit /\ NIdle
SpecCast == CastInit /\ [][CastNext]_vars

\* Camera::raycast under the fairness of a running program: a call that can
\* take a step takes it
SpecCastFair == CastInit /\ [][CastNext]_vars /\ WF_vars(CastNext)

\* Bvh::new, call by call
NewInit == GIdle /\ RIdle /\ CIdle /\ NInit
SpecNew == NewInit /\ [][NewNext]_vars

-----------------------------------------------------------------------------
(* The properties *)

\* whether t lies in the closed interval i
InInterval(i, t) == FLe(i.min, t) /\ FLe(t, i.max)

\* the members of objects the query hits
HitMembers == { k \in 1..Len(objects) : primHits[k].some }

\* C1: for every ray, interval and primitive set built by Bvh::new, Bvh::hit
\* answers as the brute-force scan of the primitives does: no hit when no
\* primitive is hit, otherwise a hit whose t is the smallest over all the
\* primitives, whichever child holds it.
C1_BvhIsBruteForce ==
    gpc = "queried" =>
        /\ bvhHit.some <=> HitMembers # {}
        /\ bvhHit.some => \A k \in HitMembers : FLe(bvhHit.t, primHits[k].t)

\* C2: every hit returned by a primitive, by Bvh::hit or by HittableGroup::hit
\* for the interval [min, max] has min <= t <= max.
C2_HitInsideInterval ==
    gpc = "queried" =>
        /\ \A k \in 1..Len(objects) :
              primHits[k].some => InInterval(interval, primHits[k].t)
        /\ bvhHit.some => InInterval(interval, bvhHit.t)
        /\ groupHit.some => InInterval(interval, groupHit.t)

\* the positions of the image
ImagePositions == (0..(IMAGE_WIDTH - 1)) \X (0..(imageHeight - 1))

\* the worker whose row range holds row y
Owner(y) == CHOOSE i \in Workers : row_start[i] <= y /\ y < row_end[i]

\* C3: whatever the interleaving and the order in which the workers finish,
\* after the join and the reassembly the pixel at (x, y) is the one the worker
\* owning row y produced for column x, and every position of the image is
\* written exactly once (no position outside it is written).
C3_PixelPlacement ==
    mpc = "done" =>
        /\ \A p \in ImagePositions :
              LET i == Owner(p[2])
              IN  /\ buffer[p] = fragment[i][((p[2] - row_start[i]) * IMAGE_WIDTH) + p[1] + 1]
                  /\ writes[p] = 1
        /\ \A p \in Positions \ ImagePositions : writes[p] = 0

C3_Witness ==
    /\ mpc = "done"
    /\ threads >= 2
    /\ imageHeight >= 2
    /\ finished[1] # 1
    /\ \E x \in 0..(IMAGE_WIDTH - 1) : buffer[<<x, 0>>] # buffer[<<x, imageHeight - 1>>]

\* C4: with every thread's generator started from the same seed, the frame of
\* T workers is pixel for pixel the frame one worker rendering rows 0..H
\* produces from that seed.
C4_SameAsSingleWorker ==
    (mpc = "done" /\ \A i \in Workers : seed[i] = seed[1]) =>
        \A p \in ImagePositions :
            buffer[p] = RenderRows(0, imageHeight, <<>>, <<>>, seed[1])[(p[2] * IMAGE_WIDTH) + p[1] + 1]

\* C5: the row ranges handed to the workers are contiguous and in order from 0
\* to the image height, every row lies in exactly one of them, the first T-1
\* hold floor(H/T) rows and the last holds floor(H/T) + H mod T rows.
C5_RowPartition ==
    mpc # "spawn" =>
        /\ row_start[1] = 0
        /\ row_end[threads] = imageHeight
        /\ \A i \in 1..(threads - 1) :
              /\ row_start[i + 1] = row_end[i]
              /\ row_end[i] - row_start[i] = imageHeight \div threads
        /\ row_end[threads] - row_start[threads]
              = (imageHeight \div threads) + (imageHeight % threads)
        /\ \A y \in 0..(imageHeight - 1) :
              Cardinality({ i \in Workers : row_start[i] <= y /\ y < row_end[i] }) = 1

C5_Witness ==
    /\ mpc = "join"
    /\ threads >= 2
    /\ imageHeight > threads
    /\ imageHeight % threads # 0

\* the rows for which worker i has stored its increment
RowsStored(i) == (row[i] - row_start[i]) + (IF wpc[i] = "unlock" THEN 1 ELSE 0)

RECURSIVE RowsStoredUpTo(_)
RowsStoredUpTo(n) == IF n = 0 THEN 0 ELSE RowsStored(n) + RowsStoredUpTo(n - 1)

\* C9: under every interleaving the counter is read and written only by the
\* holder of the mutex, each completed row adds exactly 1 to it and none is
\* lost, the values reported to update_progress are 1, 2, ... in this order,
\* and once every worker is joined the counter is the image height.
C9_CompletedCounter ==
    /\ \A i \in Workers : wpc[i] \in {"load", "store", "unlock"} => mutex = i
    /\ \A i \in Workers : wpc[i] = "store" => counter[i] = completed
    /\ completed = RowsStoredUpTo(threads)
    /\ Len(progress) = completed
    /\ \A k \in 1..Len(progress) : progress[k] = k
    /\ mpc \in {"assemble", "done"} => completed = imageHeight

C9_Witness ==
    \E i, j \in Workers :
        /\ i # j
        /\ wpc[i] = "lock"
        /\ wpc[j] = "store"
        /\ row[i] > row_start[i]
        /\ row[j] > row_start[j]

\* whether the 8-bit value p is c * 255 clamped to [0, 255] and truncated
ClampedChannel(c, p) ==
    LET v == FMul(c, R(255))
    IN  IF FLe(R(255), v) THEN p = 255
        ELSE IF FLe(v, R(0)) THEN p = 0
        ELSE (p * v[2] <= v[1]) /\ (v[1] < (p + 1) * v[2])

\* C10: each channel of every pixel a worker produces is the sample-averaged
\* radiance times 255, clamped to [0, 255] and truncated: above 1.0 it is 255,
\* below 0 it is 0, never a wrapped-around value.
C10_ChannelClamp ==
    \A i \in Workers :
        /\ Len(fragment[i]) = Len(colors[i])
        /\ \A k \in 1..Len(fragment[i]) :
              /\ ClampedChannel(colors[i][k][1], fragment[i][k].r)
              /\ ClampedChannel(colors[i][k][2], fragment[i][k].g)
              /\ ClampedChannel(colors[i][k][3], fragment[i][k].b)

C10_Witness ==
    /\ \E i \in Workers : \E k \in 1..Len(fragment[i]) :
          FLt(R(1), colors[i][k][1]) /\ fragment[i][k].r = 255
    /\ \E i \in Workers : \E k \in 1..Len(fragment[i]) :
          FLt(colors[i][k][2], R(0)) /\ fragment[i][k].g = 0
    /\ \E i \in Workers : \E k \in 1..Len(fragment[i]) :
          FLt(R(0), colors[i][k][3]) /\ FLt(colors[i][k][3], R(1))
            /\ fragment[i][k].b \in 1..254

\* the nearest hit of the primary ray in the world
PrimaryHit == GroupHit(world, new_ray, primary)

\* C6: raycast at depth 0 returns exactly the configured background, whatever
\* the ray and the scene, and issues no intersection query.
C6_DepthZeroIsBackground ==
    (cpc = "done" /\ depth0 = 0) =>
        /\ cvalue = background
        /\ queries = 0
        /\ calls = 0

C6_Witness ==
    /\ cpc = "done"
    /\ depth0 = 0
    /\ background # BACKGROUND
    /\ PrimaryHit.some

\* the recursive calls and queries of raycast(ray, scene, depth0) stay within depth0
C7_Bounded ==
    /\ cdepth >= 0
    /\ cdepth = depth0 - calls
    /\ calls <= depth0
    /\ queries <= depth0
    /\ Len(cstack) <= calls

\* a bound on the steps raycast still takes
C7_Measure ==
    (3 * cdepth) + Len(cstack)
        + (IF cpc = "call" THEN 2 ELSE IF cpc = "return" THEN 1 ELSE 0)

\* C7: raycast(ray, scene, d) terminates for every scene and depth, mirrors
\* facing each other included: every recursive call passes depth - 1, the
\* recursion stops at depth 0, and at most d recursive calls and d queries are
\* made per primary ray.
C7_Terminates ==
    /\ []C7_Bounded
    /\ [][C7_Measure' < C7_Measure]_vars
    /\ <>(cpc = "done")

C7_Witness ==
    /\ cpc = "done"
    /\ depth0 >= 2
    /\ calls = depth0
    /\ queries = depth0

\* C8: at depth >= 1, when the nearest hit of the ray is on a DiffuseLight,
\* raycast returns exactly the emitted texture colour at the hit: one query, no
\* recursive call, no background and no attenuation term.
C8_LightIsEmitted ==
    (cpc = "done" /\ depth0 >= 1 /\ PrimaryHit.some /\ PrimaryHit.material.kind = "light") =>
        /\ cvalue = TextureValue(PrimaryHit.material.emit, PrimaryHit.u, PrimaryHit.v,
                                 PrimaryHit.point)
        /\ calls = 0
        /\ queries = 1

C8_Witness ==
    /\ cpc = "done"
    /\ depth0 >= 2
    /\ background # BACKGROUND
    /\ PrimaryHit.some
    /\ PrimaryHit.material.kind = "light"
    /\ PrimaryHit.material.emit.kind = "checker"
    /\ Len(world) >= 2

\* C11: Interval::contains(x) is the closed membership test, true exactly when
\* min <= x <= max (so false for every x > max), and Interval::surrounds(x) is
\* the open test min < x < max.
C11_ContainsIsClosed ==
    gpc = "tested" =>
        /\ probeIn <=> (FLe(interval.min, probe) /\ FLe(probe, interval.max))
        /\ probeAround <=> (FLt(interval.min, probe) /\ FLt(probe, interval.max))

\* the weights (v, w) of the point p of the triangle's plane: p = a + v*ab + w*ac
Weights(tr, p) ==
    LET nn == dot(tr.normal, tr.normal)
        q == VSub(p, tr.a)
    IN  << FDiv(dot(cross(q, tr.ac), tr.normal), nn),
           FDiv(dot(cross(tr.ab, q), tr.normal), nn) >>

\* the parameter at which the ray r meets the plane of the triangle
PlaneT(tr, r) ==
    FDiv(dot(VSub(tr.a, r.origin), tr.normal), dot(tr.normal, r.direction))

\* the triangles among objects
Triangles == { k \in 1..Len(objects) : objects[k].kind = "triangle" }

\* C12: Triangle::hit returns no hit when normal . direction >= 0 and when the
\* ray meets the plane at weights with v < 0, w < 0 or v + w > 1; it returns a
\* hit when the ray is front-facing, meets the plane strictly inside the
\* triangle and at a t inside the interval, and the (u, v) of that hit is
\* (1 - v - w) * uv_a + v * uv_b + w * uv_c.
C12_TriangleDomain ==
    gpc = "queried" =>
        \A k \in Triangles :
            LET tr == objects[k]
                nd == dot(tr.normal, ray.direction)
                t == PlaneT(tr, ray)
                vw == Weights(tr, RayAt(ray, t))
                v == vw[1]
                w == vw[2]
                u == FSub(FSub(R(1), v), w)
            IN  IF FLe(R(0), nd) THEN ~primHits[k].some
                ELSE /\ (FLt(v, R(0)) \/ FLt(w, R(0)) \/ FLt(R(1), FAdd(v, w)))
                            => ~primHits[k].some
                     /\ (/\ FLt(R(0), v) /\ FLt(R(0), w) /\ FLt(FAdd(v, w), R(1))
                         /\ InInterval(interval, t))
                            => /\ primHits[k].some
                               /\ primHits[k].t = t
                               /\ primHits[k].u =
                                    FAdd(FAdd(FMul(u, tr.uv_a[1]), FMul(v, tr.uv_b[1])),
                                         FMul(w, tr.uv_c[1]))
                               /\ primHits[k].v =
                                    FAdd(FAdd(FMul(u, tr.uv_a[2]), FMul(v, tr.uv_b[2])),
                                         FMul(w, tr.uv_c[2]))

\* a slanted front-facing ray meets the second triangle of the quad strictly
\* inside, where the three texture coordinates blend to (3/4, 1/2)
C12_Witness ==
    /\ gpc = "queried"
    /\ ray \in Slanted
    /\ \E k \in Triangles :
          /\ primHits[k].some
          /\ primHits[k].u = Frac(3, 4)
          /\ primHits[k].v = Frac(1, 2)
    /\ \E k \in Triangles : ~primHits[k].some

\* the corners of a triangle
Corners(tr) == { tr.a, VAdd(tr.a, tr.ab), VAdd(tr.a, tr.ac) }

\* two triangles of a mesh that share an edge and face the same way
Adjacent(tr1, tr2) ==
    /\ Cardinality(Corners(tr1) \cap Corners(tr2)) = 2
    /\ unit(tr1.normal) = unit(tr2.normal)

\* whether the point p of the triangle's plane lies on the triangle, edges included
OnTriangle(tr, p) ==
    LET vw == Weights(tr, p)
    IN  FLe(R(0), vw[1]) /\ FLe(R(0), vw[2]) /\ FLe(FAdd(vw[1], vw[2]), R(1))

\* C13: watertightness: when a front-facing ray passes through a point of the
\* edge shared by two adjacent, equally oriented triangles (the only points
\* that lie on both), at most one of the two triangles reports a hit.
C13_Watertight ==
    gpc = "queried" =>
        \A k, l \in Triangles :
            LET p == RayAt(ray, PlaneT(objects[k], ray))
            IN  (/\ k < l
                 /\ Adjacent(objects[k], objects[l])
                 /\ FLt(dot(objects[k].normal, ray.direction), R(0))
                 /\ OnTriangle(objects[k], p)
                 /\ OnTriangle(objects[l], p))
                    => ~(primHits[k].some /\ primHits[l].some)

\* the spheres among objects
Spheres == { k \in 1..Len(objects) : objects[k].kind = "sphere" }

\* C14: Sphere::hit returns None whenever the discriminant of the quadratic is
\* zero or negative: a grazing ray (discriminant exactly 0) is no hit, as a ray
\* that misses is.
C14_NoHitOnDegenerate ==
    gpc = "queried" =>
        \A k \in Spheres :
            FLe(SphereDisc(objects[k], ray), R(0)) => ~primHits[k].some

\* the square of the distance from the sphere's centre to the point of r at t,
\* less the square of the radius: zero exactly at the roots
OffSphere(s, r, t) ==
    FSub(lengthsq(VSub(RayAt(r, t), s.center)), FMul(s.radius, s.radius))

\* the two roots <<t1, t2>> of a ray r that meets the sphere s
Roots(s, r) ==
    LET a == lengthsq(r.direction)
        half_b == dot(VSub(r.origin, s.center), r.direction)
        sqrtd == FSqrt(SphereDisc(s, r))
    IN  << FDiv(FSub(FNeg(half_b), sqrtd), a), FDiv(FAdd(FNeg(half_b), sqrtd), a) >>

\* whether t lies strictly inside the interval i
StrictlyIn(i, t) == FLt(i.min, t) /\ FLt(t, i.max)

\* C15: for a ray that meets a sphere at the roots t1 <= t2, Sphere::hit returns
\* the hit at t1 when t1 lies strictly inside the interval, otherwise the hit at
\* t2 when t2 lies strictly inside it, otherwise no hit.
C15_RootChoice ==
    gpc = "queried" =>
        \A k \in Spheres :
            FLe(R(0), SphereDisc(objects[k], ray)) =>
                LET t1 == Roots(objects[k], ray)[1]
                    t2 == Roots(objects[k], ray)[2]
                IN  /\ OffSphere(objects[k], ray, t1) = R(0)
                    /\ OffSphere(objects[k], ray, t2) = R(0)
                    /\ FLe(t1, t2)
                    /\ IF StrictlyIn(interval, t1)
                       THEN primHits[k].some /\ primHits[k].t = t1
                       ELSE IF StrictlyIn(interval, t2)
                       THEN primHits[k].some /\ primHits[k].t = t2
                       ELSE ~primHits[k].some

\* a ray from outside a sphere through its centre, on the default ray interval,
\* reports the nearer of two distinct roots
C15_Witness ==
    /\ gpc = "queried"
    /\ interval = new_ray
    /\ \E k \in Spheres :
          /\ SphereDisc(objects[k], ray) = FMul(objects[k].radius, objects[k].radius)
          /\ FLt(R(0), OffSphere(objects[k], ray, R(0)))
          /\ primHits[k].some
          /\ primHits[k].t = Roots(objects[k], ray)[1]
          /\ FLt(primHits[k].t, Roots(objects[k], ray)[2])

\* the range of parameters at which r is inside the slab of axis a of box,
\* ordered
Slab(box, r, a) ==
    LET ta == FDiv(FSub(box[a + 1].min, r.origin[a + 1]), r.direction[a + 1])
        tb == FDiv(FSub(box[a + 1].max, r.origin[a + 1]), r.direction[a + 1])
    IN  Interval(FMin(ta, tb), FMax(ta, tb))

\* the intersection of the interval i with the three slab ranges
SlabMeet(box, r, i) ==
    Interval(FMax(FMax(i.min, Slab(box, r, 0).min),
                  FMax(Slab(box, r, 1).min, Slab(box, r, 2).min)),
             FMin(FMin(i.max, Slab(box, r, 0).max),
                  FMin(Slab(box, r, 1).max, Slab(box, r, 2).max)))

\* the orders in which three axes can be processed
AxisOrders == { p \in [1..3 -> 1..3] : \A a, b \in 1..3 : a # b => p[a] # p[b] }

\* the box and the ray with their axes renamed by p
Renamed(v, p) == <<v[p[1]], v[p[2]], v[p[3]]>>

\* C16: for a ray none of whose direction components is zero, Aabb3d::hit is
\* true exactly when the intersection of the interval with the three ordered
\* slab ranges has its upper end strictly above its lower end, and the answer
\* is the same whatever the order in which the axes are processed.
C16_SlabTest ==
    (gpc = "boxed" /\ \A a \in 1..3 : ray.direction[a] # R(0)) =>
        /\ boxHit <=> FLt(SlabMeet(bvh.bounds, ray, interval).min,
                          SlabMeet(bvh.bounds, ray, interval).max)
        /\ \A p \in AxisOrders :
              boxHit = AabbHit(Renamed(bvh.bounds, p),
                               [origin |-> Renamed(ray.origin, p),
                                direction |-> Renamed(ray.direction, p)],
                               interval)

\* a slanted ray passes through the padded box of a triangle alone
C16_Witness ==
    /\ gpc = "boxed"
    /\ \A a \in 1..3 : ray.direction[a] # R(0)
    /\ boxHit
    /\ Len(objects) = 1
    /\ objects[1].kind = "triangle"
    /\ size(bvh.bounds[3]) = R(DELTA)

\* the members of objects whose own hit lies inside the queried interval
HitInside == { k \in HitMembers : InInterval(interval, primHits[k].t) }

\* C17: whatever the order of its members, HittableGroup::hit returns no hit
\* exactly when no member is hit inside the interval and otherwise the hit with
\* the smallest t among the members hit inside it; during the scan the upper
\* bound nearest never increases.
C17_GroupNearest ==
    gpc = "queried" =>
        /\ groupHit.some <=> HitInside # {}
        /\ groupHit.some =>
              /\ \E k \in HitInside : groupHit = primHits[k]
              /\ \A k \in HitInside : FLe(groupHit.t, primHits[k].t)
        /\ LET nearests == GroupNearests(objects, interval, ray)
           IN  \A j \in 1..(Len(nearests) - 1) : FLe(nearests[j + 1], nearests[j])

\* the values raycast(r, world, depth) can return by the three rules of C18,
\* one for each vector Vec3f::rand() can hand to a diffuse surface
RECURSIVE Radiance(_, _)
Radiance(r, depth) ==
    IF depth = 0 THEN { background }
    ELSE Strict1(LAMBDA h :
            IF ~h.some THEN { background }
            ELSE IF h.material.kind = "light"
            THEN { Emit(h.material, h.u, h.v) }
            ELSE UNION { { VAdd(Emit(h.material, h.u, h.v),
                                <<FMul(sc.attenuation[1], value[1]),
                                  FMul(sc.attenuation[2], value[2]),
                                  FMul(sc.attenuation[3], value[3])>>) :
                             value \in Radiance(sc.scattered, depth - 1) } :
                         sc \in { x \in { Scatter(h.material, r, h, rand) :
                                              rand \in RandUnits } :
                                      Exact(GroupLeaves(world), x.scattered) } },
            GroupHit(world, new_ray, r))

\* C18: for depth >= 1 raycast returns the background when the scene reports
\* no hit; emitted + attenuation * raycast(scattered, depth - 1), multiplied
\* channel by channel, when the material of the nearest hit scatters; and
\* emitted alone when it does not.
C18_RaycastRules ==
    (cpc = "done" /\ depth0 >= 1) =>
        /\ cvalue \in Radiance(primary, depth0)
        /\ ~PrimaryHit.some => cvalue = background /\ calls = 0
        /\ (PrimaryHit.some /\ PrimaryHit.material.kind # "light") => calls >= 1

\* a purple diffuse surface under the background (1, 2, 3): the recursive call
\* returns the background, which comes back with its green channel removed and
\* the other two as they were
C18_Witness ==
    /\ cpc = "done"
    /\ depth0 >= 1
    /\ calls = 1
    /\ background = Vec(1, 2, 3)
    /\ PrimaryHit.some
    /\ PrimaryHit.material = Purple
    /\ cvalue = Vec(1, 0, 3)

\* the box minimum of h on an axis
MinOn(h, axis) == h.bounds[axis + 1].min

\* whether the list s is ordered by box minimum on the axis, one way or the other
Ordered(s, axis) ==
    \/ \A a, b \in 1..Len(s) : a < b => FLe(MinOn(s[a], axis), MinOn(s[b], axis))
    \/ \A a, b \in 1..Len(s) : a < b => FLe(MinOn(s[b], axis), MinOn(s[a], axis))

\* whether the tree h is built from the list objs by the three branches, on
\* some axis at every node
RECURSIVE Branches(_, _)
Branches(h, objs) ==
    /\ h.kind = "bvh"
    /\ \E axis \in Axes :
          CASE Len(objs) = 1 -> h.left = objs[1] /\ h.right = objs[1]
            [] Len(objs) = 2 ->
                  /\ \/ h.left = objs[1] /\ h.right = objs[2]
                     \/ h.left = objs[2] /\ h.right = objs[1]
                  /\ FLe(MinOn(h.left, axis), MinOn(h.right, axis))
                  /\ FLt(MinOn(objs[1], axis), MinOn(objs[2], axis)) => h.left = objs[1]
                  /\ FLt(MinOn(objs[2], axis), MinOn(objs[1], axis)) => h.left = objs[2]
            [] OTHER ->
                  \E s \in Perms(objs) :
                      /\ Ordered(s, axis)
                      /\ Branches(h.left, SubSeq(s, 1, Len(s) \div 2))
                      /\ Branches(h.right, SubSeq(s, (Len(s) \div 2) + 1, Len(s)))

\* C19: Bvh::new follows three branches on the chosen axis: with 1 primitive
\* both children are that primitive; with 2 the left child is the one with the
\* smaller box minimum on the axis; with more the list is ordered by box
\* minimum on the axis and split at floor(n / 2), the left subtree built from
\* the first floor(n / 2) elements and the right one from the rest, so that the
\* minima of one half are all on one side of the minima of the other.
C19_ThreeBranches ==
    gpc = "built" => Branches(bvh, objects)

\* three primitives with three different minima on every axis: the left
\* subtree is built from one of them and the right one from the other two
C19_Witness ==
    /\ gpc = "built"
    /\ Len(objects) = 3
    /\ \A axis \in Axes : \A a, b \in 1..3 :
          a # b => MinOn(objects[a], axis) # MinOn(objects[b], axis)
    /\ bvh.left.left = bvh.left.right
    /\ bvh.right.left # bvh.right.right

\* whether worker i has rendered every row of its range
Complete(i) ==
    /\ wpc[i] = "done"
    /\ row[i] = row_end[i]
    /\ Len(fragment[i]) = (row_end[i] - row_start[i]) * IMAGE_WIDTH

\* whether put_pixel has written the framebuffer
Written == \E p \in Positions : writes[p] > 0

\* C20: under fair scheduling every worker completes all the rows of its range
\* and returns its fragment: a worker waiting for the progress mutex gets it,
\* a worker holding it releases it, and the run ends with the image saved (no
\* state short of that is a dead end); the main thread writes the framebuffer
\* only after every worker has been joined.
C20_ForkJoinProgress ==
    /\ <>(mpc = "done" /\ mutex = 0 /\ \A i \in Workers : Complete(i))
    /\ (mutex # 0) ~> (mutex = 0)
    /\ [](\A i \in Workers : mutex = i => wpc[i] \in {"load", "store", "unlock"})
    /\ [](Written => /\ Len(fragments) = threads
                     /\ \A i \in Workers : Complete(i))

\* a finished run in which both workers had rows to render and the worker
\* spawned last returned first
C20_Witness ==
    /\ mpc = "done"
    /\ threads = 2
    /\ Written
    /\ row_end[1] > row_start[1]
    /\ finished = <<2, 1>>
    /\ completed = imageHeight

\* the elements of a sequence
Range(s) == { s[k] : k \in 1..Len(s) }

\* C21: for every list handed to Bvh::new, the empty one included,
\* construction terminates: every recursive call receives a non-empty list
\* strictly shorter than its caller's, the stack is never exhausted, and the
\* primitives at the leaves of the finished tree are exactly the primitives of
\* the list.
C21_ConstructionTerminates ==
    /\ npc # "overflow"
    /\ \A k \in 1..Len(nstack) :
          nstack[k].span # -1 =>
              /\ Len(nstack[k].objects) >= 1
              /\ Len(nstack[k].objects) < nstack[k].span
    /\ npc = "done" => Range(nleaves) = Range(faces)

====
